---- MODULE Spec2Model ----
(***************************************************************************)
(* Model of the Aequitas-Fin reasoning agent: the LangGraph state machine  *)
(* built by ReasoningGraph (src/src/reasoning/graph.py) over the nodes of  *)
(* src/src/reasoning/nodes.py and the AgentState of                        *)
(* src/src/reasoning/state.py.                                             *)
(*                                                                         *)
(* Strings the code inspects (the query, the keywords) are sequences of    *)
(* one-character strings, so that lower() and the substring test `in` are  *)
(* computed.  Optional[T] is a sequence of length 0 (None) or 1 (a value). *)
(***************************************************************************)
EXTENDS Integers, Sequences, FiniteSets, TLC

VARIABLES
    retrieval_tool,   \* ReasoningGraph.retrieval_tool: TRUE iff a tool was passed
    search_tool,      \* ReasoningGraph.search_tool: TRUE iff a tool was passed
    llm,              \* ReasoningGraph.llm: TRUE iff an llm object was passed
    state,            \* the AgentState committed by the graph
    pc,               \* the node the graph runs next: idle, router, retrieve, search_web, generate, END
    current_year,     \* datetime.now().year, read by router_node at every evaluation
    dispatches,       \* history: the non-router nodes executed so far, in order
    classified,       \* history: needs_web as computed by each router evaluation
    calls,            \* history: the adapter calls made, with what the adapter did
    mode,             \* the entry point that started the run: run, arun or stream
    yielded,          \* what ReasoningGraph.stream has yielded to its caller so far
    conc,             \* two runs in flight on the one instance: their states and positions
    ctx,              \* generate_answer_node's context assembly: its inputs and what it built
    ingest            \* process_cibc_reports: the PDFs left to index and the collection

vars == <<retrieval_tool, search_tool, llm, state, pc, current_year,
          dispatches, classified, calls, mode, yielded, conc, ctx, ingest>>

(***************************************************************************)
(* Bounds of the model.                                                    *)
(***************************************************************************)
MaxIter == 3          \* max_iterations ranges over 1..MaxIter
BaseYear == 2026      \* the calendar year when the graph is constructed
MaxYearTicks == 1     \* how many times the calendar year may change

(***************************************************************************)
(* Optional values.                                                        *)
(***************************************************************************)
None == <<>>
Some(v) == <<v>>
IsNone(x) == x = <<>>
Val(x) == x[1]

(***************************************************************************)
(* Strings as sequences of characters.                                     *)
(***************************************************************************)
UpperAlpha == <<"A","B","C","D","E","F","G","H","I","J","K","L","M",
                "N","O","P","Q","R","S","T","U","V","W","X","Y","Z">>
LowerAlpha == <<"a","b","c","d","e","f","g","h","i","j","k","l","m",
                "n","o","p","q","r","s","t","u","v","w","x","y","z">>
DigitChars == <<"0","1","2","3","4","5","6","7","8","9">>

\* str.lower(), one character
LowerChar(c) ==
    IF \E i \in 1..26 : UpperAlpha[i] = c
    THEN LowerAlpha[CHOOSE i \in 1..26 : UpperAlpha[i] = c]
    ELSE c

\* the query taken as typed, no lower()
Lower_verbatim(s) == s

\* str.lower()
Lower(s) == [i \in 1..Len(s) |-> LowerChar(s[i])]

\* `sub in s` on Python strings
Contains(sub, s) ==
    \E i \in 1..(Len(s) - Len(sub) + 1) : SubSeq(s, i, i + Len(sub) - 1) = sub

\* str(n) for a natural number n
RECURSIVE Str(_)
Str(n) ==
    IF n < 10 THEN <<DigitChars[n + 1]>>
    ELSE Str(n \div 10) \o <<DigitChars[(n % 10) + 1]>>

(***************************************************************************)
(* router_node: the routing policy.                                        *)
(***************************************************************************)
YearRange == 5

Keywords == << <<"c","u","r","r","e","n","t">>,
               <<"l","a","t","e","s","t">>,
               <<"n","e","w","s">>,
               <<"t","o","d","a","y">>,
               <<"r","e","c","e","n","t">> >>

\* future_years = [str(current_year + i) for i in range(5)]
future_years(year) == [i \in 1..YearRange |-> Str(year + (i - 1))]

\* web_keywords = [...] + future_years
web_keywords(year) == Keywords \o future_years(year)

(***************************************************************************)
(* The queries a caller submits.                                           *)
(***************************************************************************)
QPlain == <<"r","o","i","?">>
QLatest == <<"L","a","t","e","s","t"," ","r","o","i">>
QNewsletter == <<"n","e","w","s","l","e","t","t","e","r">>
QYear(y) == <<"f","y">> \o Str(y)
Queries ==
    {QPlain, QLatest, QNewsletter,
     QYear(BaseYear - 1), QYear(BaseYear), QYear(BaseYear + YearRange)}

\* the calendar years a run can read from the clock
Years == BaseYear..(BaseYear + MaxYearTicks)

\* any(keyword in query.lower() for keyword in web_keywords)
any_keyword(query, year) ==
    \E k \in 1..Len(web_keywords(year)) :
        Contains(web_keywords(year)[k], Lower(query))

\* any_keyword for every query and year of the model, computed once
needs_web_table == [q \in Queries, y \in Years |-> any_keyword(q, y)]

\* needs_web = any(...)
needs_web(query, year) == needs_web_table[query, year]

\* decide with the first branch taken whatever needs_web is
decide_ignoring_recency(st, year) ==
    IF IsNone(st.retrieved_docs) THEN "retrieve"
    ELSE IF needs_web(st.query, year) /\ IsNone(st.web_results) THEN "search_web"
    ELSE "generate"

\* decide with the second branch taken whatever needs_web is
decide_web_after_local(st, year) ==
    IF IsNone(st.retrieved_docs) /\ ~needs_web(st.query, year) THEN "retrieve"
    ELSE IF IsNone(st.web_results) THEN "search_web"
    ELSE "generate"

\* decide testing `not state.get("retrieved_docs")`: an empty result counts as none
decide_retry_empty(st, year) ==
    IF (IsNone(st.retrieved_docs) \/ st.retrieved_docs = Some(<<>>)) /\ ~needs_web(st.query, year)
    THEN "retrieve"
    ELSE IF needs_web(st.query, year) /\ IsNone(st.web_results) THEN "search_web"
    ELSE "generate"

\* the if/elif/else of router_node
decide(st, year) ==
    IF IsNone(st.retrieved_docs) /\ ~needs_web(st.query, year) THEN "retrieve"
    ELSE IF needs_web(st.query, year) /\ IsNone(st.web_results) THEN "search_web"
    ELSE "generate"

\* router_node returning the iteration it read
router_node_no_increment(st, year) ==
    [st EXCEPT !.next_action = Some(decide(st, year))]

\* the dict router_node returns
router_node(st, year) ==
    [st EXCEPT !.next_action = Some(decide(st, year)),
               !.iteration = st.iteration + 1]

(***************************************************************************)
(* AgentState and create_initial_state.                                    *)
(***************************************************************************)
create_initial_state(query, max_iterations) ==
    [query          |-> query,
     messages       |-> <<>>,
     retrieved_docs |-> None,
     web_results    |-> None,
     next_action    |-> None,
     answer         |-> None,
     iteration      |-> 0,
     max_iterations |-> max_iterations]

\* the channel update with messages declared without a reducer: last value wins
Commit_last_value(old, update) == update

\* The graph's channel update after a node returns its dict: every key of
\* AgentState is overwritten by the returned value, except messages, which is
\* declared Annotated[List[BaseMessage], add] and so becomes old + returned.
Commit(old, update) ==
    [update EXCEPT !.messages = old.messages \o update.messages]

(***************************************************************************)
(* The adapters.  An adapter call is an outcome chosen by the environment: *)
(* ok = FALSE is an exception raised inside the adapter's try block.       *)
(***************************************************************************)
D1 == <<"a">>
D2 == <<"b", "b">>
SourceResults == {<<>>, <<D1>>, <<D2, D1>>}
SourceOutcomes ==
    {[ok |-> FALSE, value |-> <<>>]} \cup {[ok |-> TRUE, value |-> r] : r \in SourceResults}

\* LocalRetrievalTool.retrieve: the documents, or [] when anything raised
LocalRetrievalTool_retrieve(outcome) ==
    IF outcome.ok THEN outcome.value ELSE <<>>

\* TavilySearchTool.search: the formatted results, or [] when anything raised
TavilySearchTool_search(outcome) ==
    IF outcome.ok THEN outcome.value ELSE <<>>

LlmTexts == {"A1", "A2"}
\* llm.invoke: with no llm object (None) the attribute lookup raises
LlmOutcomes(hasLlm) ==
    {[ok |-> FALSE, value |-> <<>>]} \cup
    (IF hasLlm THEN {[ok |-> TRUE, value |-> <<t>>] : t \in LlmTexts} ELSE {})

Apology == "I apologize, but I encountered an issue while generating the answer. Please try again."

(***************************************************************************)
(* The nodes.  A message is [type, content]; content is the sequence of    *)
(* the pieces of the formatted string.                                     *)
(***************************************************************************)
HumanMessage(content) == [type |-> "human", content |-> content]
AIMessage(content) == [type |-> "ai", content |-> content]

RetrievedMsg(n) ==
    HumanMessage(<<"Retrieved ">> \o Str(n) \o <<" documents from local database">>)
SearchedMsg(n) ==
    HumanMessage(<<"Retrieved ">> \o Str(n) \o <<" results from web search">>)

\* rag_retrieval_node storing `documents or None`
rag_retrieval_node_or_none(st, documents) ==
    [st EXCEPT !.retrieved_docs = IF documents = <<>> THEN None ELSE Some(documents),
               !.messages = st.messages \o <<RetrievedMsg(Len(documents))>>]

\* the dict rag_retrieval_node returns, documents being retrieval_tool.retrieve(query)
rag_retrieval_node(st, documents) ==
    [st EXCEPT !.retrieved_docs = Some(documents),
               !.messages = st.messages \o <<RetrievedMsg(Len(documents))>>]

\* web_search_node writing its results under the key retrieved_docs
web_search_node_wrong_key(st, results) ==
    [st EXCEPT !.retrieved_docs = Some(results),
               !.messages = st.messages \o <<SearchedMsg(Len(results))>>]

\* the dict web_search_node returns, results being search_tool.search(query)
web_search_node(st, results) ==
    [st EXCEPT !.web_results = Some(results),
               !.messages = st.messages \o <<SearchedMsg(Len(results))>>]

\* llm.invoke's failure answered with the empty string
llm_answer_empty_on_failure(response) ==
    IF response.ok THEN Val(response.value) ELSE ""

\* the try/except around llm.invoke
llm_answer(response) ==
    IF response.ok THEN Val(response.value) ELSE Apology

\* generate_answer_node leaving answer unset when llm.invoke failed
generate_answer_node_none_on_failure(st, response) ==
    [st EXCEPT !.answer = IF response.ok THEN Some(llm_answer(response)) ELSE None,
               !.messages = st.messages \o <<AIMessage(<<llm_answer(response)>>)>>]

\* the dict generate_answer_node returns
generate_answer_node(st, response) ==
    [st EXCEPT !.answer = Some(llm_answer(response)),
               !.messages = st.messages \o <<AIMessage(<<llm_answer(response)>>)>>]

\* route_next_node without the max_iterations check
route_next_node_no_budget(st) ==
    IF st.next_action = Some("retrieve") THEN "retrieve"
    ELSE IF st.next_action = Some("search_web") THEN "search_web"
    ELSE "generate"

\* the conditional edge function
route_next_node(st) ==
    IF st.iteration >= st.max_iterations THEN "generate"
    ELSE IF st.next_action = Some("retrieve") THEN "retrieve"
    ELSE IF st.next_action = Some("search_web") THEN "search_web"
    ELSE "generate"

\* the path map with every branch mapped to its own node
PathMap_no_substitution(hasRetriever, hasSearcher, branch) ==
    CASE branch = "retrieve"   -> "retrieve"
      [] branch = "search_web" -> "search_web"
      [] OTHER                 -> "generate"

\* the path map of add_conditional_edges
PathMap(hasRetriever, hasSearcher, branch) ==
    CASE branch = "retrieve"   -> IF hasRetriever THEN "retrieve" ELSE "generate"
      [] branch = "search_web" -> IF hasSearcher THEN "search_web" ELSE "generate"
      [] OTHER                 -> "generate"

NoState == create_initial_state(<<>>, 0)

\* run calls graph.invoke, arun graph.ainvoke, stream iterates graph.stream
Modes == {"run", "arun", "stream"}

\* One item of graph.stream as ReasoningGraph.stream re-yields it: the graph
\* compiled from a StateGraph streams, after each node, the dict that node
\* returned, keyed by the node's name.
StreamChunk(node, update) == [node |-> node, update |-> update]

\* the concurrent runs of one instance
Runs == {1, 2}
NoRuns ==
    [store      |-> [r \in Runs |-> NoState],
     pc         |-> [r \in Runs |-> "idle"],
     alone      |-> [r \in Runs |-> NoState],
     overlapped |-> FALSE]

\* every run writing the one state kept on the instance
StateSlot_on_instance(r) == 1

\* Where run r keeps its state: initial_state is a local of the call, and
\* graph.invoke keeps the channels of each invocation apart.
StateSlot(r) == r

\* no context assembled yet, no ingestion started
NoContext == [phase |-> "idle"]
NoIngest == [phase |-> "idle"]

(***************************************************************************)
(* The state machine.                                                      *)
(***************************************************************************)
\* ReasoningGraph.__init__: any combination of adapters, graph not yet run
Init ==
    /\ retrieval_tool \in BOOLEAN
    /\ search_tool \in BOOLEAN
    /\ llm \in BOOLEAN
    /\ state = NoState
    /\ pc = "idle"
    /\ current_year = BaseYear
    /\ dispatches = <<>>
    /\ classified = <<>>
    /\ calls = <<>>
    /\ mode = "run"
    /\ yielded = <<>>
    /\ conc = NoRuns
    /\ ctx = NoContext
    /\ ingest = NoIngest

\* ReasoningGraph.run up to the graph's entry point
Run ==
    /\ pc = "idle"
    /\ \E query \in Queries, max_iterations \in 1..MaxIter :
          state' = Commit(NoState, create_initial_state(query, max_iterations))
    /\ mode' \in Modes
    /\ pc' = "router"
    /\ UNCHANGED <<retrieval_tool, search_tool, llm, current_year,
                   dispatches, classified, calls, yielded, conc, ctx, ingest>>

\* the router node, then the conditional edge out of it
Router ==
    /\ pc = "router"
    /\ state' = Commit(state, router_node(state, current_year))
    /\ pc' = PathMap(retrieval_tool, search_tool, route_next_node(state'))
    /\ classified' = Append(classified, needs_web(state.query, current_year))
    /\ yielded' = IF mode = "stream"
                  THEN Append(yielded, StreamChunk("router", router_node(state, current_year)))
                  ELSE yielded
    /\ UNCHANGED <<retrieval_tool, search_tool, llm, current_year, dispatches, calls,
                   mode, conc, ctx, ingest>>

\* the retrieve node, then the edge back to router
Retrieve ==
    /\ pc = "retrieve"
    /\ \E outcome \in SourceOutcomes :
          /\ state' = Commit(state, rag_retrieval_node(state, LocalRetrievalTool_retrieve(outcome)))
          /\ calls' = Append(calls, [adapter |-> "retriever", outcome |-> outcome])
          /\ yielded' = IF mode = "stream"
                        THEN Append(yielded, StreamChunk("retrieve",
                                 rag_retrieval_node(state, LocalRetrievalTool_retrieve(outcome))))
                        ELSE yielded
    /\ pc' = "router"
    /\ dispatches' = Append(dispatches, "retrieve")
    /\ UNCHANGED <<retrieval_tool, search_tool, llm, current_year, classified, mode, conc, ctx, ingest>>

\* the search_web node, then the edge back to router
SearchWeb ==
    /\ pc = "search_web"
    /\ \E outcome \in SourceOutcomes :
          /\ state' = Commit(state, web_search_node(state, TavilySearchTool_search(outcome)))
          /\ calls' = Append(calls, [adapter |-> "searcher", outcome |-> outcome])
          /\ yielded' = IF mode = "stream"
                        THEN Append(yielded, StreamChunk("search_web",
                                 web_search_node(state, TavilySearchTool_search(outcome))))
                        ELSE yielded
    /\ pc' = "router"
    /\ dispatches' = Append(dispatches, "search_web")
    /\ UNCHANGED <<retrieval_tool, search_tool, llm, current_year, classified, mode, conc, ctx, ingest>>

\* the generate node, then the edge to END: invoke returns the state
Generate ==
    /\ pc = "generate"
    /\ \E response \in LlmOutcomes(llm) :
          /\ state' = Commit(state, generate_answer_node(state, response))
          /\ calls' = Append(calls, [adapter |-> "llm", outcome |-> response])
          /\ yielded' = IF mode = "stream"
                        THEN Append(yielded, StreamChunk("generate",
                                 generate_answer_node(state, response)))
                        ELSE yielded
    /\ pc' = "END"
    /\ dispatches' = Append(dispatches, "generate")
    /\ UNCHANGED <<retrieval_tool, search_tool, llm, current_year, classified, mode, conc, ctx, ingest>>

\* the calendar year changes
Tick ==
    /\ current_year < BaseYear + MaxYearTicks
    /\ current_year' = current_year + 1
    /\ UNCHANGED <<retrieval_tool, search_tool, llm, state, pc,
                   dispatches, classified, calls, mode, yielded, conc, ctx, ingest>>

Step == Router \/ Retrieve \/ SearchWeb \/ Generate

Next == Run \/ Router \/ Retrieve \/ SearchWeb \/ Generate \/ Tick

Spec == Init /\ [][Next]_vars

\* graph.invoke runs each scheduled node to completion
FairSpec == Spec /\ WF_vars(Step)

(***************************************************************************)
(* Two runs of one instance, interleaved node by node.  conc.store is the  *)
(* state each call holds, conc.alone the state the same run reaches when   *)
(* nothing else touches it, conc.overlapped whether a run has stepped      *)
(* while the other was in flight.                                          *)
(***************************************************************************)
InFlight(r) == conc.pc[r] \notin {"idle", "END"}
OtherRun(r) == CHOOSE o \in Runs : o # r
RunState(r) == conc.store[StateSlot(r)]

\* run r commits `update` and moves on to node `next`
ConcCommit(r, update, updateAlone, next) ==
    /\ conc' = [store      |-> [conc.store EXCEPT ![StateSlot(r)] = Commit(RunState(r), update)],
                pc         |-> [conc.pc EXCEPT ![r] = next],
                alone      |-> [conc.alone EXCEPT ![r] = Commit(conc.alone[r], updateAlone)],
                overlapped |-> conc.overlapped \/ InFlight(OtherRun(r))]
    /\ UNCHANGED <<retrieval_tool, search_tool, llm, state, pc, current_year,
                   dispatches, classified, calls, mode, yielded, ctx, ingest>>

\* the queries of the concurrent callers: no keyword, a keyword, a year
ConcQueries == {QPlain, QLatest, QYear(BaseYear + YearRange)}

\* ReasoningGraph.run / arun called while another call may be in flight
ConcRun(r) ==
    /\ conc.pc[r] = "idle"
    /\ \E query \in ConcQueries, max_iterations \in {1, MaxIter} :
          /\ conc' = [store      |-> [conc.store EXCEPT ![StateSlot(r)] =
                                         Commit(NoState, create_initial_state(query, max_iterations))],
                      pc         |-> [conc.pc EXCEPT ![r] = "router"],
                      alone      |-> [conc.alone EXCEPT ![r] =
                                         Commit(NoState, create_initial_state(query, max_iterations))],
                      overlapped |-> conc.overlapped \/ InFlight(OtherRun(r))]
    /\ UNCHANGED <<retrieval_tool, search_tool, llm, state, pc, current_year,
                   dispatches, classified, calls, mode, yielded, ctx, ingest>>

\* run r's router node and the conditional edge out of it
ConcRouter(r) ==
    /\ conc.pc[r] = "router"
    /\ ConcCommit(r, router_node(RunState(r), current_year),
                     router_node(conc.alone[r], current_year),
                     PathMap(retrieval_tool, search_tool,
                             route_next_node(Commit(RunState(r), router_node(RunState(r), current_year)))))

\* run r's retrieve node
ConcRetrieve(r) ==
    /\ conc.pc[r] = "retrieve"
    /\ \E outcome \in SourceOutcomes :
          ConcCommit(r, rag_retrieval_node(RunState(r), LocalRetrievalTool_retrieve(outcome)),
                        rag_retrieval_node(conc.alone[r], LocalRetrievalTool_retrieve(outcome)),
                        "router")

\* run r's search_web node
ConcSearchWeb(r) ==
    /\ conc.pc[r] = "search_web"
    /\ \E outcome \in SourceOutcomes :
          ConcCommit(r, web_search_node(RunState(r), TavilySearchTool_search(outcome)),
                        web_search_node(conc.alone[r], TavilySearchTool_search(outcome)),
                        "router")

\* run r's generate node
ConcGenerate(r) ==
    /\ conc.pc[r] = "generate"
    /\ \E response \in LlmOutcomes(llm) :
          ConcCommit(r, generate_answer_node(RunState(r), response),
                        generate_answer_node(conc.alone[r], response),
                        "END")

ConcNext ==
    \/ \E r \in Runs : ConcRun(r)
    \/ \E r \in Runs : ConcRouter(r)
    \/ \E r \in Runs : ConcRetrieve(r)
    \/ \E r \in Runs : ConcSearchWeb(r)
    \/ \E r \in Runs : ConcGenerate(r)
    \/ Tick

ConcSpec == Init /\ [][ConcNext]_vars

(***************************************************************************)
(* generate_answer_node: the context it assembles for the prompt.  Texts   *)
(* are sequences of characters; context_parts is the list of strings the   *)
(* code joins with a newline.                                              *)
(***************************************************************************)
MAX_CONTEXT_LENGTH == 500
MaxItems == 4         \* a source returns at most MaxItems items

LocalHeader ==
    <<"#","#"," ","L","o","c","a","l"," ","K","n","o","w","l","e","d","g","e",
      " ","B","a","s","e",":">>
WebHeader ==
    <<"\n","#","#"," ","W","e","b"," ","S","e","a","r","c","h"," ","R","e",
      "s","u","l","t","s",":">>
TruncationMarker ==
    <<".",".","."," ","[","t","r","u","n","c","a","t","e","d","]">>
NoContextSentinel ==
    <<"N","o"," ","a","d","d","i","t","i","o","n","a","l"," ","c","o","n","t",
      "e","x","t"," ","a","v","a","i","l","a","b","l","e",".">>

\* a text of n characters, no two neighbours alike
Text(n) == [i \in 1..n |-> DigitChars[(i % 10) + 1]]

\* the texts a source returns: short, exactly at the limit, one over it
ItemTexts == {D1, Text(MAX_CONTEXT_LENGTH), Text(MAX_CONTEXT_LENGTH + 1)}

\* s[:n] on a Python sequence
Slice(s, n) == SubSeq(s, 1, IF Len(s) < n THEN Len(s) ELSE n)

\* the whole list where the code takes [:3]
first_items_all(items) == items

\* retrieved_docs[:3] / web_results[:3]
first_items(items) == Slice(items, 3)

\* the marker added from MAX_CONTEXT_LENGTH characters on
truncate_at_limit(doc) ==
    IF Len(doc) >= MAX_CONTEXT_LENGTH
    THEN Slice(doc, MAX_CONTEXT_LENGTH) \o TruncationMarker
    ELSE Slice(doc, MAX_CONTEXT_LENGTH)

\* truncated = doc[:MAX_CONTEXT_LENGTH]; if len(doc) > MAX_CONTEXT_LENGTH: truncated += "... [truncated]"
truncate(doc) ==
    IF Len(doc) > MAX_CONTEXT_LENGTH
    THEN Slice(doc, MAX_CONTEXT_LENGTH) \o TruncationMarker
    ELSE Slice(doc, MAX_CONTEXT_LENGTH)

\* f"{i}. {truncated}" for i, doc in enumerate(items[:3], 1)
numbered_items(items) ==
    [i \in 1..Len(first_items(items)) |->
        Str(i) \o <<".", " ">> \o truncate(first_items(items)[i])]

\* `if retrieved_docs:` on an Optional list: neither None nor empty
Truthy(opt) == ~IsNone(opt) /\ Val(opt) # <<>>

\* the list context_parts after both if blocks
context_parts(retrieved_docs, web_results) ==
    (IF Truthy(retrieved_docs)
     THEN <<LocalHeader>> \o numbered_items(Val(retrieved_docs)) ELSE <<>>)
    \o
    (IF Truthy(web_results)
     THEN <<WebHeader>> \o numbered_items(Val(web_results)) ELSE <<>>)

\* "\n".join(parts)
RECURSIVE Join(_)
Join(parts) ==
    IF Len(parts) = 0 THEN <<>>
    ELSE IF Len(parts) = 1 THEN parts[1]
    ELSE parts[1] \o <<"\n">> \o Join(Tail(parts))

\* context = "\n".join(context_parts) if context_parts else "No additional context available."
assemble_context(retrieved_docs, web_results) ==
    IF context_parts(retrieved_docs, web_results) # <<>>
    THEN Join(context_parts(retrieved_docs, web_results))
    ELSE NoContextSentinel

\* the lists a source can have left in the state
RECURSIVE ItemLists(_)
ItemLists(n) ==
    IF n = 0 THEN {<<>>}
    ELSE ItemLists(n - 1) \cup
         {Append(l, t) : l \in {k \in ItemLists(n - 1) : Len(k) = n - 1}, t \in ItemTexts}

RetrievedDocsInputs == {None} \cup {Some(l) : l \in ItemLists(MaxItems)}
WebResultsInputs ==
    {None, Some(<<>>), Some(<<D1>>), Some(<<Text(MAX_CONTEXT_LENGTH + 1), D1>>),
     Some(<<D1, Text(MAX_CONTEXT_LENGTH), D1, Text(MAX_CONTEXT_LENGTH + 1)>>)}

\* generate_answer_node entered with some retrieved_docs and web_results in the state
EnterGenerate ==
    /\ ctx.phase = "idle"
    /\ \E retrieved_docs \in RetrievedDocsInputs, web_results \in WebResultsInputs :
          ctx' = [phase          |-> "entered",
                  retrieved_docs |-> retrieved_docs,
                  web_results    |-> web_results]
    /\ UNCHANGED <<retrieval_tool, search_tool, llm, state, pc, current_year,
                   dispatches, classified, calls, mode, yielded, conc, ingest>>

\* generate_answer_node up to the prompt
AssembleContext ==
    /\ ctx.phase = "entered"
    /\ ctx' = [phase          |-> "assembled",
               retrieved_docs |-> ctx.retrieved_docs,
               web_results    |-> ctx.web_results,
               context_parts  |-> context_parts(ctx.retrieved_docs, ctx.web_results),
               context        |-> assemble_context(ctx.retrieved_docs, ctx.web_results)]
    /\ UNCHANGED <<retrieval_tool, search_tool, llm, state, pc, current_year,
                   dispatches, classified, calls, mode, yielded, conc, ingest>>

ContextNext == EnterGenerate \/ AssembleContext

ContextSpec == Init /\ [][ContextNext]_vars

(***************************************************************************)
(* Document ingestion: process_cibc_reports of                             *)
(* src/src/ingestion/ingest_docs.py.  An element is the record of its      *)
(* text; an embedding is known only by the text it was computed from.      *)
(***************************************************************************)
MaxPdfs == 2          \* data_dir holds at most MaxPdfs PDF files
MaxElements == 3      \* partition_pdf returns at most MaxElements elements

Whitespace == {" ", "\t", "\n"}

\* str.strip()
RECURSIVE lstrip(_)
lstrip(s) == IF s # <<>> /\ Head(s) \in Whitespace THEN lstrip(Tail(s)) ELSE s
RECURSIVE rstrip(_)
rstrip(s) ==
    IF s # <<>> /\ s[Len(s)] \in Whitespace THEN rstrip(SubSeq(s, 1, Len(s) - 1)) ELSE s
strip(s) == rstrip(lstrip(s))

\* el.text of the elements partition_pdf returns: empty, blank, two chunks of prose
ElementTexts == {<<>>, <<" ">>, <<"q", "1", " ">>, <<"q", "2">>}
Element(text) == [text |-> text]

RECURSIVE ElementLists(_)
ElementLists(n) ==
    IF n = 0 THEN {<<>>}
    ELSE ElementLists(n - 1) \cup
         {Append(l, Element(t)) : l \in {k \in ElementLists(n - 1) : Len(k) = n - 1},
                                  t \in ElementTexts}

\* embedding_model.embed, one text
embed(text) == [embedding_of |-> text]

\* texts = [el.text for el in elements if el.text.strip()]
RECURSIVE texts(_)
texts(elements) ==
    IF elements = <<>> THEN <<>>
    ELSE (IF strip(Head(elements).text) # <<>> THEN <<Head(elements).text>> ELSE <<>>)
         \o texts(Tail(elements))

\* bge_embeddings = list(embedding_model.embed(texts))
bge_embeddings(elements) == [i \in 1..Len(texts(elements)) |-> embed(texts(elements)[i])]

\* zip(a, b): pairs up to the shorter of the two
zip(a, b) == [i \in 1..(IF Len(a) < Len(b) THEN Len(a) ELSE Len(b)) |-> <<a[i], b[i]>>]

\* the PointStruct list built from zip(elements, bge_embeddings)
build_points(elements) ==
    [i \in 1..Len(zip(elements, bge_embeddings(elements))) |->
        [vector  |-> [local_bge |-> zip(elements, bge_embeddings(elements))[i][2],
                      openai    |-> "placeholder"],
         payload |-> [text |-> zip(elements, bge_embeddings(elements))[i][1].text]]]

\* process_cibc_reports up to the loop: the collection is recreated, the PDFs are listed
StartIngest ==
    /\ ingest.phase = "idle"
    /\ \E pdf_files \in 0..MaxPdfs :
          ingest' = [phase      |-> IF pdf_files = 0 THEN "returned" ELSE "indexing",
                     pdf_files  |-> pdf_files,
                     collection |-> <<>>]
    /\ UNCHANGED <<retrieval_tool, search_tool, llm, state, pc, current_year,
                   dispatches, classified, calls, mode, yielded, conc, ctx>>

\* one pass of the loop: partition a PDF, embed, build the points, upsert them
IndexPdf ==
    /\ ingest.phase = "indexing"
    /\ \E elements \in ElementLists(MaxElements) :
          ingest' = [phase      |-> IF ingest.pdf_files = 1 THEN "returned" ELSE "indexing",
                     pdf_files  |-> ingest.pdf_files - 1,
                     collection |-> ingest.collection \o build_points(elements)]
    /\ UNCHANGED <<retrieval_tool, search_tool, llm, state, pc, current_year,
                   dispatches, classified, calls, mode, yielded, conc, ctx>>

IngestNext == StartIngest \/ IndexPdf

\* the script runs on its own: no reasoning graph is built
IngestInit == Init /\ ~retrieval_tool /\ ~search_tool /\ ~llm

IngestSpec == IngestInit /\ [][IngestNext]_vars

(***************************************************************************)
(* Vocabulary of the properties.                                           *)
(***************************************************************************)
Started == pc # "idle"
Ended == pc = "END"
AnswerSet == ~IsNone(state.answer)
DispatchNodes == {"retrieve", "search_web", "generate"}

\* the query contains one of the five keywords (case-insensitively)
HasKeyword(query) ==
    \E k \in 1..Len(Keywords) : Contains(Keywords[k], Lower(query))

\* the policy classified the query as recency-sensitive at no / at every evaluation so far
NeverRecency == \A i \in 1..Len(classified) : ~classified[i]
AlwaysRecency == \A i \in 1..Len(classified) : classified[i]

CallsTo(adapter) == {i \in 1..Len(calls) : calls[i].adapter = adapter}
FailedCallsTo(adapter) == {i \in CallsTo(adapter) : ~calls[i].outcome.ok}
Dispatched(node) == \E i \in 1..Len(dispatches) : dispatches[i] = node
Logged(msg) == \E i \in 1..Len(state.messages) : state.messages[i] = msg

(***************************************************************************)
(* C1: whatever the query, max_iterations >= 1, the adapters configured    *)
(* and what the adapters do, a run makes at most max_iterations + 1        *)
(* dispatches, ends, and ends with answer set.                             *)
(***************************************************************************)
C1_TerminationBound ==
    /\ [](Started => Len(dispatches) <= state.max_iterations + 1)
    /\ [](Ended => AnswerSet)
    /\ [](Started => <>Ended)

C1_Witness ==
    /\ Ended
    /\ AnswerSet
    /\ Len(dispatches) = 3
    /\ FailedCallsTo("retriever") # {}

(***************************************************************************)
(* C2: for a query that contains a recency keyword, retrieved_docs is      *)
(* absent in every state of the run and retrieve is never dispatched.      *)
(***************************************************************************)
C2_KeywordNeverRetrieves ==
    (Started /\ HasKeyword(state.query)) =>
        /\ IsNone(state.retrieved_docs)
        /\ ~Dispatched("retrieve")
        /\ pc # "retrieve"

C2_Witness ==
    /\ Ended
    /\ HasKeyword(state.query)
    /\ retrieval_tool
    /\ state.max_iterations > 1
    /\ Len(dispatches) = 2

(***************************************************************************)
(* C3: for a query the policy classifies as not recency-sensitive, with a  *)
(* Retriever configured and any max_iterations >= 1, the first dispatch    *)
(* is retrieve.                                                            *)
(***************************************************************************)
C3_FirstDispatchRetrieve ==
    (/\ retrieval_tool
     /\ Len(dispatches) >= 1
     /\ ~HasKeyword(state.query)
     /\ ~classified[1]) => dispatches[1] = "retrieve"

(***************************************************************************)
(* C4: right after a policy evaluation, if iteration <= max_iterations     *)
(* the node dispatched is the one the policy chose (generate when that     *)
(* node's adapter is absent); generate is forced only when                 *)
(* iteration > max_iterations.                                             *)
(***************************************************************************)
C4_ForcedOnlyWhenExceeded ==
    (pc \in DispatchNodes /\ state.iteration <= state.max_iterations) =>
        pc = PathMap(retrieval_tool, search_tool, Val(state.next_action))

(***************************************************************************)
(* C5: for a query the policy classifies as not recency-sensitive, with a  *)
(* Retriever configured and max_iterations >= 2, the dispatches are        *)
(* exactly retrieve, generate; at the end retrieved_docs is what the       *)
(* Retriever returned, web_results is absent and answer is set.            *)
(***************************************************************************)
C5_RetrieveThenGenerate ==
    (Started /\ retrieval_tool /\ state.max_iterations >= 2 /\ NeverRecency) =>
        /\ \/ dispatches = <<>>
           \/ dispatches = <<"retrieve">>
           \/ dispatches = <<"retrieve", "generate">>
        /\ IsNone(state.web_results)
        /\ Ended =>
              /\ dispatches = <<"retrieve", "generate">>
              /\ calls[1].adapter = "retriever"
              /\ state.retrieved_docs =
                    Some(IF calls[1].outcome.ok THEN calls[1].outcome.value ELSE <<>>)
              /\ AnswerSet

C5_Witness ==
    /\ Ended
    /\ retrieval_tool
    /\ search_tool
    /\ state.max_iterations >= 2
    /\ NeverRecency
    /\ state.retrieved_docs = Some(<<>>)

(***************************************************************************)
(* C6: for a query the policy classifies as recency-sensitive, with a      *)
(* Searcher configured and max_iterations >= 2, the dispatches are exactly *)
(* search_web, generate; at the end web_results is what the Searcher       *)
(* returned, retrieved_docs is absent and answer is set.                   *)
(***************************************************************************)
C6_SearchThenGenerate ==
    (Started /\ search_tool /\ state.max_iterations >= 2 /\ AlwaysRecency) =>
        /\ \/ dispatches = <<>>
           \/ dispatches = <<"search_web">>
           \/ dispatches = <<"search_web", "generate">>
        /\ IsNone(state.retrieved_docs)
        /\ Ended =>
              /\ dispatches = <<"search_web", "generate">>
              /\ calls[1].adapter = "searcher"
              /\ state.web_results =
                    Some(IF calls[1].outcome.ok THEN calls[1].outcome.value ELSE <<>>)
              /\ AnswerSet

C6_Witness ==
    /\ Ended
    /\ search_tool
    /\ retrieval_tool
    /\ state.max_iterations >= 2
    /\ AlwaysRecency
    /\ ~IsNone(state.web_results)
    /\ Len(Val(state.web_results)) = 2

(***************************************************************************)
(* C7: when a Retriever or Searcher call fails, the run does not fail:     *)
(* the source's field is present and empty, an evidence-log entry with     *)
(* count 0 is in the log, the source is not called again, and the run      *)
(* goes on to end with answer set.                                         *)
(***************************************************************************)
SourceFailed == FailedCallsTo("retriever") # {} \/ FailedCallsTo("searcher") # {}

C7_SourceFailureDegrades ==
    /\ [](FailedCallsTo("retriever") # {} =>
            /\ state.retrieved_docs = Some(<<>>)
            /\ Logged(RetrievedMsg(0))
            /\ Cardinality(CallsTo("retriever")) = 1
            /\ pc # "retrieve")
    /\ [](FailedCallsTo("searcher") # {} =>
            /\ state.web_results = Some(<<>>)
            /\ Logged(SearchedMsg(0))
            /\ Cardinality(CallsTo("searcher")) = 1
            /\ pc # "search_web")
    /\ [](SourceFailed => <>(Ended /\ AnswerSet /\ dispatches[Len(dispatches)] = "generate"))

C7_Witness ==
    /\ Ended
    /\ AnswerSet
    /\ FailedCallsTo("searcher") # {}
    /\ state.web_results = Some(<<>>)
    /\ dispatches = <<"search_web", "generate">>

(***************************************************************************)
(* C8: when the llm call of the generate step fails, the step sets answer  *)
(* to the fixed apology string, appends that string to the evidence log,   *)
(* leaves retrieved_docs and web_results as they were, and the run ends.   *)
(***************************************************************************)
C8_SynthesisFailureApology ==
    [][(pc = "generate" /\ dispatches' # dispatches
            /\ ~calls'[Len(calls')].outcome.ok) =>
          /\ pc' = "END"
          /\ state'.answer = Some(Apology)
          /\ state'.messages[Len(state'.messages)] = AIMessage(<<Apology>>)
          /\ state'.retrieved_docs = state.retrieved_docs
          /\ state'.web_results = state.web_results]_vars

C8_Witness ==
    /\ Ended
    /\ llm
    /\ ~calls[Len(calls)].outcome.ok
    /\ state.answer = Some(Apology)
    /\ ~IsNone(state.retrieved_docs)
    /\ Len(Val(state.retrieved_docs)) = 2

(***************************************************************************)
(* C9: with no llm configured a run never returns a state with an answer   *)
(* (the call fails instead).                                               *)
(***************************************************************************)
C9_NoSynthesizerFails ==
    ~llm => ~(Ended /\ AnswerSet)

(***************************************************************************)
(* C10: when the policy chooses retrieve with no Retriever configured, or  *)
(* search_web with no Searcher configured, generate is dispatched instead, *)
(* the missing adapter's field stays absent, and the run ends with answer  *)
(* set.                                                                    *)
(***************************************************************************)
ChoseMissingAdapter ==
    /\ pc \in DispatchNodes
    /\ \/ ~retrieval_tool /\ state.next_action = Some("retrieve")
       \/ ~search_tool /\ state.next_action = Some("search_web")

C10_AbsentAdapterGenerates ==
    /\ [](ChoseMissingAdapter => pc = "generate")
    /\ [](~retrieval_tool => IsNone(state.retrieved_docs) /\ ~Dispatched("retrieve"))
    /\ [](~search_tool => IsNone(state.web_results) /\ ~Dispatched("search_web"))
    /\ [](ChoseMissingAdapter => <>(Ended /\ AnswerSet))

C10_Witness ==
    /\ Ended
    /\ AnswerSet
    /\ ~search_tool
    /\ state.next_action = Some("search_web")
    /\ state.iteration < state.max_iterations
    /\ dispatches = <<"generate">>

(***************************************************************************)
(* C13: in every state of a run the length of the evidence log (messages   *)
(* as committed by the graph) equals the number of dispatches made so far. *)
(***************************************************************************)
C13_LogLengthIsDispatchCount ==
    Started => Len(state.messages) = Len(dispatches)

(***************************************************************************)
(* C14: a policy evaluation changes only next_action and iteration, which  *)
(* grows by 1; query, max_iterations, retrieved_docs, web_results, answer  *)
(* and the evidence log are as before.                                     *)
(***************************************************************************)
C14_RouterFrame ==
    [][(pc = "router" /\ pc' # "router") =>
          state' = [state EXCEPT !.next_action = state'.next_action,
                                 !.iteration = state.iteration + 1]]_vars

(***************************************************************************)
(* C15: the policy chooses retrieve if retrieved_docs is absent and the    *)
(* query is not recency-sensitive, else search_web if the query is         *)
(* recency-sensitive and web_results is absent, else generate: a function  *)
(* of the classification and of the two absences alone.                    *)
(***************************************************************************)
PolicyTable(recency, docsAbsent, webAbsent) ==
    IF docsAbsent /\ ~recency THEN "retrieve"
    ELSE IF recency /\ webAbsent THEN "search_web"
    ELSE "generate"

C15_PolicyChoice ==
    (pc \in DispatchNodes) =>
        state.next_action =
            Some(PolicyTable(classified[Len(classified)],
                             IsNone(state.retrieved_docs),
                             IsNone(state.web_results)))

C15_Witness ==
    /\ pc = "generate"
    /\ state.next_action = Some("generate")
    /\ classified[Len(classified)]
    /\ ~IsNone(state.web_results)
    /\ Len(Val(state.web_results)) = 2
    /\ state.iteration < state.max_iterations

(***************************************************************************)
(* C16: answer is set exactly when the run has ended; only the generate    *)
(* step writes answer, it writes it once, and it is the only step after    *)
(* which the run ends.                                                     *)
(***************************************************************************)
C16_AnswerIffEnded ==
    /\ [](Started => (AnswerSet <=> Ended))
    /\ [][state'.answer # state.answer =>
            pc = "generate" /\ IsNone(state.answer) /\ pc' = "END"]_vars
    /\ [][(pc # "END" /\ pc' = "END") =>
            pc = "generate" /\ dispatches' = Append(dispatches, "generate")]_vars
    /\ [][pc = "END" => state' = state /\ pc' = "END"]_vars

C16_Witness ==
    /\ Ended
    /\ state.answer = Some("A1")
    /\ Len(dispatches) = 2

(***************************************************************************)
(* C17: iteration starts at 0, never decreases, changes only in a policy   *)
(* evaluation and then by exactly 1; when the run has ended it equals the  *)
(* number of policy evaluations and the number of dispatches.              *)
(***************************************************************************)
C17_IterationCountsEvaluations ==
    /\ []((pc = "router" /\ classified = <<>>) => state.iteration = 0)
    /\ [](Started => state.iteration = Len(classified))
    /\ [][state'.iteration # state.iteration =>
            pc = "router" /\ state'.iteration = state.iteration + 1]_vars
    /\ [][pc = "router" /\ pc' # "router" =>
            state'.iteration = state.iteration + 1]_vars
    /\ [](Ended => state.iteration = Len(dispatches))

C17_Witness ==
    /\ Ended
    /\ state.iteration = 3
    /\ Len(classified) = 3
    /\ Len(dispatches) = 3

(***************************************************************************)
(* C18: within a run each evidence source is consulted at most once:       *)
(* retrieved_docs and web_results, once present, are never reset to absent *)
(* nor overwritten, also when the source returned an empty list.           *)
(***************************************************************************)
C18_SourceConsultedOnce ==
    /\ [](Cardinality(CallsTo("retriever")) <= 1 /\ Cardinality(CallsTo("searcher")) <= 1)
    /\ [][state'.retrieved_docs # state.retrieved_docs =>
            IsNone(state.retrieved_docs) /\ pc = "retrieve"]_vars
    /\ [][state'.web_results # state.web_results =>
            IsNone(state.web_results) /\ pc = "search_web"]_vars

C18_Witness ==
    /\ pc = "generate"
    /\ state.retrieved_docs = Some(<<>>)
    /\ state.iteration < state.max_iterations
    /\ ~classified[Len(classified)]

(***************************************************************************)
(* C19: the evidence log is append-only and in causal order: across every  *)
(* step the log before is a prefix of the log after, and the entries       *)
(* appear in the order in which the dispatches that produced them ran      *)
(* (the source-count entries before the final answer entry).               *)
(***************************************************************************)
IsPrefix(a, b) == Len(a) <= Len(b) /\ SubSeq(b, 1, Len(a)) = a

\* the node whose dispatch produces the message
ProducerOf(msg) ==
    IF msg.type = "ai" THEN "generate"
    ELSE IF msg.content[Len(msg.content)] = " documents from local database" THEN "retrieve"
    ELSE "search_web"

\* the position in the run of the (only) dispatch of the node
DispatchIndex(node) == CHOOSE i \in 1..Len(dispatches) : dispatches[i] = node

LogInDispatchOrder ==
    \A i, j \in 1..Len(state.messages) :
        i < j => DispatchIndex(ProducerOf(state.messages[i]))
                    <= DispatchIndex(ProducerOf(state.messages[j]))

C19_LogAppendOnlyCausal ==
    /\ [][IsPrefix(state.messages, state'.messages)]_vars
    /\ [](Started => LogInDispatchOrder)

(***************************************************************************)
(* C20: retrieve changes only retrieved_docs and the evidence log,         *)
(* search_web only web_results and the log, generate only answer and the   *)
(* log; query and max_iterations keep their initial values through the     *)
(* run and no dispatch changes iteration.                                  *)
(***************************************************************************)
C20_DispatchFrame ==
    /\ [][pc = "retrieve" =>
            state' = [state EXCEPT !.retrieved_docs = state'.retrieved_docs,
                                   !.messages = state'.messages]]_vars
    /\ [][pc = "search_web" =>
            state' = [state EXCEPT !.web_results = state'.web_results,
                                   !.messages = state'.messages]]_vars
    /\ [][pc = "generate" =>
            state' = [state EXCEPT !.answer = state'.answer,
                                   !.messages = state'.messages]]_vars
    /\ [][Started =>
            /\ state'.query = state.query
            /\ state'.max_iterations = state.max_iterations]_vars

C20_Witness ==
    /\ Ended
    /\ dispatches = <<"search_web", "retrieve", "generate">>
    /\ state.max_iterations = 3

LastYield == yielded[Len(yielded)]

C23_NextActionIsDispatched ==
    /\ (pc \in DispatchNodes) => state.next_action = Some(pc)
    /\ Ended => state.next_action = Some("generate")

(***************************************************************************)
(* C24: policy evaluations and dispatches strictly alternate, starting     *)
(* with an evaluation, and every evaluation after the first reads the      *)
(* retrieved_docs / web_results written by the dispatch just before it.    *)
(***************************************************************************)
LastDispatch == dispatches[Len(dispatches)]
LastCall == calls[Len(calls)]

C24_EvaluateDispatchAlternate ==
    /\ [](pc = "router" => Len(classified) = Len(dispatches))
    /\ [](pc \in DispatchNodes => Len(classified) = Len(dispatches) + 1)
    /\ [](Ended => Len(classified) = Len(dispatches))
    /\ []((pc = "router" /\ dispatches # <<>>) =>
            /\ LastDispatch = "retrieve" =>
                    state.retrieved_docs = Some(LocalRetrievalTool_retrieve(LastCall.outcome))
            /\ LastDispatch = "search_web" =>
                    state.web_results = Some(TavilySearchTool_search(LastCall.outcome)))
    /\ [][(pc = "router" /\ pc' # pc) =>
            /\ pc' \in DispatchNodes
            /\ state'.next_action = Some(decide(state, current_year))]_vars
    /\ [][(pc \in DispatchNodes /\ pc' # pc) => pc' \in {"router", "END"}]_vars

C24_Witness ==
    /\ pc = "router"
    /\ dispatches = <<"retrieve">>
    /\ LastCall.outcome.ok
    /\ state.retrieved_docs = Some(<<D2, D1>>)
    /\ Len(classified) = 1

(***************************************************************************)
(* C25: at a policy evaluation made in calendar year Y, a query that       *)
(* contains a recency keyword or one of the years Y+1 .. Y+5 is classified *)
(* recency-sensitive.                                                      *)
(***************************************************************************)
NextYears(year) == [i \in 1..YearRange |-> Str(year + i)]
NamesNextYear(query, year) ==
    \E k \in 1..YearRange : Contains(NextYears(year)[k], query)

C25_NextFiveYears ==
    [][(pc = "router" /\ pc' # pc /\
        (HasKeyword(state.query) \/ NamesNextYear(state.query, current_year)))
            => classified'[Len(classified')]]_vars

(***************************************************************************)
(* C26: retrieved_docs and web_results are never both present, and a run   *)
(* makes at most 2 dispatches.                                             *)
(***************************************************************************)
BothPresent == ~IsNone(state.retrieved_docs) /\ ~IsNone(state.web_results)

C26_OneSourceTwoDispatches ==
    ~BothPresent /\ Len(dispatches) <= 2

\* C26 as the code has it: a run in which every evaluation classified the
\* query the same way consults at most one source and makes at most 2
\* dispatches; the two fields are both present only in a run whose
\* classification changed between evaluations, and no run makes more than 3
\* dispatches.
C26_OneSourcePerClassification ==
    /\ (NeverRecency \/ AlwaysRecency) => (~BothPresent /\ Len(dispatches) <= 2)
    /\ Len(dispatches) <= 3
    /\ BothPresent => (Len(classified) >= 2 /\ current_year > BaseYear)

C26_Witness ==
    /\ Ended
    /\ current_year > BaseYear
    /\ Len(classified) = 2
    /\ NeverRecency
    /\ state.max_iterations = MaxIter
    /\ ~IsNone(state.retrieved_docs)
    /\ IsNone(state.web_results)

(***************************************************************************)
(* C27: iteration <= max_iterations in every state, a run consults the     *)
(* sources at most max_iterations - 1 times, and with max_iterations = 1   *)
(* the run is a single generate dispatch.                                  *)
(***************************************************************************)
SourceDispatches == {i \in 1..Len(dispatches) : dispatches[i] # "generate"}

OccursAt(word, text, i) ==
    /\ i + Len(word) - 1 <= Len(text)
    /\ \A j \in 1..Len(word) : LowerChar(text[i + j - 1]) = word[j]

OccursIgnoringCase(word, text) == \E i \in 1..Len(text) : OccursAt(word, text, i)

SubstringRecency(query, year) ==
    \/ \E k \in 1..Len(Keywords) : OccursIgnoringCase(Keywords[k], query)
    \/ \E k \in 1..YearRange : OccursIgnoringCase(future_years(year)[k], query)

C28_SubstringClassification ==
    [][(pc = "router" /\ pc' # pc) =>
        /\ classified'[Len(classified')] <=> SubstringRecency(state.query, current_year)
        /\ classified'[Len(classified')] => pc' # "retrieve"]_vars

C28_Witness ==
    /\ Ended
    /\ state.query = QNewsletter
    /\ retrieval_tool
    /\ state.max_iterations > 1
    /\ AlwaysRecency
    /\ ~Dispatched("retrieve")

(***************************************************************************)
(* C21: the assembled context has the local-knowledge section iff          *)
(* retrieved_docs is present and non-empty and the web-results section iff *)
(* web_results is present and non-empty; each section lists at most the    *)
(* first 3 items of its source, in their order; with neither source        *)
(* present and non-empty the context is the sentinel sentence.             *)
(***************************************************************************)
Assembled == ctx.phase = "assembled"
PresentNonEmpty(opt) == opt # None /\ Len(opt[1]) > 0
AtMostThree(n) == IF n > 3 THEN 3 ELSE n
Listed(opt) == IF PresentNonEmpty(opt) THEN AtMostThree(Len(opt[1])) ELSE 0
SectionLen(opt) == IF PresentNonEmpty(opt) THEN 1 + Listed(opt) ELSE 0
HasPart(part) == \E i \in 1..Len(ctx.context_parts) : ctx.context_parts[i] = part

\* the part at position `at` is item number k of a section and starts with the item's text
ListsItem(at, k, item) ==
    /\ SubSeq(ctx.context_parts[at], 1, 3) = <<DigitChars[k + 1], ".", " ">>
    /\ \A j \in 1..Len(item) :
          j <= MAX_CONTEXT_LENGTH => ctx.context_parts[at][3 + j] = item[j]

C21_ContextSections ==
    Assembled =>
        /\ HasPart(LocalHeader) <=> PresentNonEmpty(ctx.retrieved_docs)
        /\ HasPart(WebHeader) <=> PresentNonEmpty(ctx.web_results)
        /\ Contains(LocalHeader, ctx.context) <=> PresentNonEmpty(ctx.retrieved_docs)
        /\ Contains(WebHeader, ctx.context) <=> PresentNonEmpty(ctx.web_results)
        /\ Len(ctx.context_parts) = SectionLen(ctx.retrieved_docs) + SectionLen(ctx.web_results)
        /\ PresentNonEmpty(ctx.retrieved_docs) =>
              /\ ctx.context_parts[1] = LocalHeader
              /\ \A k \in 1..Listed(ctx.retrieved_docs) :
                    ListsItem(1 + k, k, ctx.retrieved_docs[1][k])
        /\ PresentNonEmpty(ctx.web_results) =>
              /\ ctx.context_parts[SectionLen(ctx.retrieved_docs) + 1] = WebHeader
              /\ \A k \in 1..Listed(ctx.web_results) :
                    ListsItem(SectionLen(ctx.retrieved_docs) + 1 + k, k, ctx.web_results[1][k])
        /\ (~PresentNonEmpty(ctx.retrieved_docs) /\ ~PresentNonEmpty(ctx.web_results))
              <=> ctx.context = NoContextSentinel

\* C21 witness: both sources returned four items, three of each are listed
C21_Witness ==
    /\ Assembled
    /\ PresentNonEmpty(ctx.retrieved_docs)
    /\ PresentNonEmpty(ctx.web_results)
    /\ Len(ctx.retrieved_docs[1]) = 4
    /\ Len(ctx.web_results[1]) = 4
    /\ Len(ctx.context_parts) = 8
    /\ ctx.retrieved_docs[1][4] # ctx.retrieved_docs[1][3]

(***************************************************************************)
(* C22: an item longer than the budget of 500 characters appears in the    *)
(* context as its first 500 characters followed by the truncation marker;  *)
(* an item of at most 500 characters, exactly 500 included, appears        *)
(* verbatim with no marker.                                                *)
(***************************************************************************)
\* the text of the part at position `at`, after its "k. " prefix
ItemBody(at) == SubSeq(ctx.context_parts[at], 4, Len(ctx.context_parts[at]))

TruncationLaw(at, item) ==
    IF Len(item) > MAX_CONTEXT_LENGTH
    THEN ItemBody(at) = SubSeq(item, 1, MAX_CONTEXT_LENGTH) \o TruncationMarker
    ELSE ItemBody(at) = item

C22_TruncationLaw ==
    Assembled =>
        /\ \A k \in 1..Listed(ctx.retrieved_docs) :
              TruncationLaw(1 + k, ctx.retrieved_docs[1][k])
        /\ \A k \in 1..Listed(ctx.web_results) :
              TruncationLaw(SectionLen(ctx.retrieved_docs) + 1 + k, ctx.web_results[1][k])

\* C22 witness: an item of exactly 500 characters listed verbatim next to one of 501 cut to 500
C22_Witness ==
    /\ Assembled
    /\ PresentNonEmpty(ctx.retrieved_docs)
    /\ Len(ctx.retrieved_docs[1]) = 2
    /\ Len(ctx.retrieved_docs[1][1]) = MAX_CONTEXT_LENGTH
    /\ Len(ctx.retrieved_docs[1][2]) = MAX_CONTEXT_LENGTH + 1
    /\ Len(ItemBody(2)) = MAX_CONTEXT_LENGTH
    /\ Len(ItemBody(3)) = MAX_CONTEXT_LENGTH + Len(TruncationMarker)

(***************************************************************************)
(* C29: every indexed point stores the embedding of its own payload text,  *)
(* whatever the partitioned elements are, elements with empty or           *)
(* whitespace-only text included.                                          *)
(***************************************************************************)
C29_PointEmbedsOwnText ==
    (ingest.phase # "idle") =>
        \A i \in 1..Len(ingest.collection) :
            ingest.collection[i].vector.local_bge = embed(ingest.collection[i].payload.text)

====
